---------------------------- MODULE Spec2Model ----------------------------
(***************************************************************************)
(* A model of wgman: the validating configuration loader and renderer      *)
(* (wgman/config.py), the status reporter (wgman/status.py) and the `up`   *)
(* command (wgman/main.py).                                                *)
(*                                                                         *)
(* Python strings whose characters the code inspects (addresses, keys,     *)
(* file names, dump fields) are sequences of one-character strings.        *)
(* Strings that are only copied (peer names, shell commands, the uplink    *)
(* name) are TLA+ strings.                                                 *)
(***************************************************************************)
EXTENDS Integers, Sequences, FiniteSets, TLC

VARIABLES
    doc, keyfs, lfile, lres,          \* Config.load: parsed TOML, key files, file name, outcome
    rcfg, conf,                       \* Config.make_wg_conf: the Config, the rendered lines
    now, hs, shown,                   \* handshake display: clock, last-handshake, outcome
    files, filter, idx, spc, cfg,     \* show_status: listing, filter, loop index, position, Config
    keys, lines, li, out, loaded, errs, exitcode,
    upc, ifup, events, upexit,        \* interface_up: position, interface exists, trace, status
    root                              \* the process runs with euid 0

loadVars   == <<doc, keyfs, lfile, lres>>
renderVars == <<rcfg, conf>>
timeVars   == <<now, hs, shown>>
statusVars == <<files, filter, idx, spc, cfg, keys, lines, li, out, loaded, errs, exitcode>>
upVars     == <<upc, ifup, events, upexit>>
vars       == <<loadVars, renderVars, timeVars, statusVars, upVars, root>>

----------------------------------------------------------------------------
(* Bounds of the model *)

MaxPeers == 2
MaxFiles == 3
MaxLines == 2
MaxDays  == 1

----------------------------------------------------------------------------
(* Python string operations on character sequences *)

Digits == {"0", "1", "2", "3", "4", "5", "6", "7", "8", "9"}

Whitespace == {" ", "\n", "\t"}

\* c in s
Contains(s, c) == \E i \in 1..Len(s) : s[i] = c

\* s.startswith(pre)
StartsWith(s, pre) == Len(s) >= Len(pre) /\ SubSeq(s, 1, Len(pre)) = pre

\* s.endswith(suf)
EndsWith(s, suf) ==
    Len(s) >= Len(suf) /\ SubSeq(s, Len(s) - Len(suf) + 1, Len(s)) = suf

\* s[n:]
DropFirst(s, n) == SubSeq(s, n + 1, Len(s))

\* s[:-n]
DropLast(s, n) == SubSeq(s, 1, Len(s) - n)

\* s.strip()
RECURSIVE Strip(_)
Strip(s) ==
    IF s = <<>> THEN s
    ELSE IF s[1] \in Whitespace THEN Strip(Tail(s))
    ELSE IF s[Len(s)] \in Whitespace THEN Strip(DropLast(s, 1))
    ELSE s

\* the length of the longest run of [0-9] that starts at position i
RECURSIVE DigitRun(_, _)
DigitRun(s, i) ==
    IF i <= Len(s) /\ s[i] \in Digits THEN 1 + DigitRun(s, i + 1) ELSE 0

\* [0-9]{1,3} at position i, followed by a non-digit or the end:
\* the position after it, or 0 when there is no match
OctetEnd(s, i) ==
    LET n == DigitRun(s, i) IN IF n >= 1 /\ n <= 3 THEN i + n ELSE 0

\* \.[0-9]{1,3} at position i (0 propagates a failed match)
DotOctetEnd(s, i) ==
    IF i > 0 /\ i <= Len(s) /\ s[i] = "." THEN OctetEnd(s, i + 1) ELSE 0

\* ([0-9]{1,3})(\.[0-9]{1,3}){3} at position 1
QuadEnd(s) == DotOctetEnd(s, DotOctetEnd(s, DotOctetEnd(s, OctetEnd(s, 1))))

\* /[0-9]+ from position i to the end of s
PrefixToEnd(s, i) ==
    /\ i > 0 /\ i <= Len(s) /\ s[i] = "/"
    /\ DigitRun(s, i + 1) >= 1
    /\ i + 1 + DigitRun(s, i + 1) = Len(s) + 1

\* re.fullmatch(r"([0-9]{1,3})(\.[0-9]{1,3}){3}/[0-9]+", s)
MatchSubnet(s) == PrefixToEnd(s, QuadEnd(s))

\* re.fullmatch(r"([0-9]{1,3})(\.[0-9]{1,3}){3}(/[0-9]+)?", s)
MatchPeerIp(s) == QuadEnd(s) = Len(s) + 1 \/ PrefixToEnd(s, QuadEnd(s))

\* the index of the last c in s, 0 when there is none (s.rfind(c) + 1)
RECURSIVE RFind(_, _)
RFind(s, c) ==
    IF s = <<>> THEN 0
    ELSE IF s[Len(s)] = c THEN Len(s)
    ELSE RFind(DropLast(s, 1), c)

\* os.path.splitext of a name without directory separators: the extension
\* starts at the last dot, unless only dots come before it
SplitExt(p) ==
    LET d == RFind(p, ".") IN
    IF d > 0 /\ \E k \in 1..(d - 1) : p[k] # "."
    THEN <<SubSeq(p, 1, d - 1), SubSeq(p, d, Len(p))>>
    ELSE <<p, <<>>>>

DigitVal(c) ==
    CASE c = "0" -> 0 [] c = "1" -> 1 [] c = "2" -> 2 [] c = "3" -> 3
      [] c = "4" -> 4 [] c = "5" -> 5 [] c = "6" -> 6 [] c = "7" -> 7
      [] c = "8" -> 8 [] c = "9" -> 9

RECURSIVE DecVal(_)
DecVal(s) ==
    IF s = <<>> THEN 0 ELSE 10 * DecVal(DropLast(s, 1)) + DigitVal(s[Len(s)])

\* int(s) succeeds: an optional sign and at least one digit
IsIntLit(s) ==
    LET body == IF s # <<>> /\ s[1] \in {"-", "+"} THEN Tail(s) ELSE s IN
    body # <<>> /\ \A i \in 1..Len(body) : body[i] \in Digits

\* int(s)
ParseInt(s) ==
    IF s[1] = "-" THEN 0 - DecVal(Tail(s))
    ELSE IF s[1] = "+" THEN DecVal(Tail(s))
    ELSE DecVal(s)

\* the number of c in s (s.split(c) has one part more)
RECURSIVE CountChar(_, _)
CountChar(s, c) ==
    IF s = <<>> THEN 0
    ELSE (IF s[1] = c THEN 1 ELSE 0) + CountChar(Tail(s), c)

\* the position of the first c in s (s contains c)
RECURSIVE Find(_, _)
Find(s, c) == IF s[1] = c THEN 1 ELSE 1 + Find(Tail(s), c)


----------------------------------------------------------------------------
(* Parsed TOML values (tomllib): a missing key, an integer, a boolean (a   *)
(* Python bool, which is an int with value 0 or 1), a string               *)

Absent   == [t |-> "absent"]
TInt(n)  == [t |-> "int", v |-> n]
TBool(b) == [t |-> "bool", v |-> IF b THEN 1 ELSE 0]
TStr(s)  == [t |-> "str", s |-> s]

\* Python's None, for the Optional fields of Peer and Config
None == Absent

\* isinstance(x, int): bool is a subclass of int
IsInstanceInt(x) == x.t \in {"int", "bool"}

----------------------------------------------------------------------------
(* msg.error_and_exit, and an exception that nothing catches *)

Diag(m)           == [msg |-> m]
DiagPeer(m, name) == [msg |-> m, peer |-> name]
DiagPath(m, path) == [msg |-> m, path |-> path]

\* msg.error_and_exit(m): the diagnostic, then sys.exit(1)
Exit(d)  == [status |-> "exit", diag |-> d, code |-> 1]

\* an uncaught exception: the interpreter prints a traceback and exits with 1
Raise(e) == [status |-> "raise", exc |-> e, code |-> 1]

----------------------------------------------------------------------------
(* Config.read_key *)

read_key(key, fs) ==
    IF key.t # "str" THEN Raise("AttributeError")
    ELSE IF StartsWith(key.s, <<"f", "i", "l", "e", ":">>)
    THEN LET path == DropFirst(key.s, 5) IN
         IF path \notin DOMAIN fs
         THEN Exit(DiagPath("File '{path}' does not exist", path))
         ELSE [status |-> "ok", key |-> Strip(fs[path])]
    ELSE [status |-> "ok", key |-> key.s]

----------------------------------------------------------------------------
(* Config.load *)

\* a loader that keeps the address as written
NormalizeIpKept(ip) == ip

\* ip = f"{ip}/32" when the address has no '/'
NormalizeIp(ip) == IF ~Contains(ip, "/") THEN ip \o <<"/", "3", "2">> ELSE ip

\* the 'port' checks
PortCheck(port) ==
    IF ~IsInstanceInt(port) THEN Exit(Diag("'port' key must be an integer"))
    ELSE IF ~(1 <= port.v /\ port.v <= 65535)
    THEN Exit(Diag("'port' must be between 1 and 65535"))
    ELSE [status |-> "ok"]

\* the 'mtu' check
MtuCheck(mtu) ==
    IF mtu.t # "absent" /\ ~IsInstanceInt(mtu)
    THEN Exit(Diag("'mtu' key must be an integer"))
    ELSE [status |-> "ok"]

\* the 'subnet' check
SubnetCheck(subnet) ==
    IF subnet.t # "str" THEN Raise("TypeError")
    ELSE IF ~MatchSubnet(subnet.s)
    THEN Exit(Diag("Invalid 'subnet' specification; expected subnet in CIDR notation"))
    ELSE [status |-> "ok"]

\* a loader that checks the format of a peer's ip before its required keys
PeerCheckIpFirst(e) ==
    IF e.t # "table" THEN Raise("TypeError")
    ELSE IF e.ip.t = "str" /\ ~MatchPeerIp(e.ip.s)
    THEN Exit(DiagPeer("Invalid IP address for peer '{name}'", e.name))
    ELSE IF e.pk.t = "absent"
    THEN Exit(DiagPeer("Missing required key 'public-key' for peer '{name}'", e.name))
    ELSE IF e.ip.t = "absent"
    THEN Exit(DiagPeer("Missing required key 'ip' for peer '{name}'", e.name))
    ELSE IF e.ip.t # "str" THEN Raise("TypeError")
    ELSE [status |-> "ok"]

\* the required keys of one peer table, then the format of its ip
PeerCheck(e) ==
    IF e.t # "table" THEN Raise("TypeError")
    ELSE IF e.pk.t = "absent"
    THEN Exit(DiagPeer("Missing required key 'public-key' for peer '{name}'", e.name))
    ELSE IF e.ip.t = "absent"
    THEN Exit(DiagPeer("Missing required key 'ip' for peer '{name}'", e.name))
    ELSE IF e.ip.t # "str" THEN Raise("TypeError")
    ELSE IF ~MatchPeerIp(e.ip.s)
    THEN Exit(DiagPeer("Invalid IP address for peer '{name}'", e.name))
    ELSE [status |-> "ok"]

\* the loop over cfg["peer"].items(), from item i on, acc the peers so far
RECURSIVE LoadPeers(_, _, _, _)
LoadPeers(items, i, acc, fs) ==
    IF i > Len(items) THEN [status |-> "ok", peers |-> acc]
    ELSE
      LET e  == items[i]
          ck == PeerCheck(e)
      IN
      IF ck.status # "ok" THEN ck
      ELSE
        LET psk == IF e.psk.t # "absent" THEN read_key(e.psk, fs)
                   ELSE [status |-> "ok"]
        IN
        IF psk.status # "ok" THEN psk
        ELSE
          LET pk == read_key(e.pk, fs) IN
          IF pk.status # "ok" THEN pk
          ELSE LoadPeers(items, i + 1,
                 Append(acc, [name           |-> e.name,
                              ip             |-> NormalizeIp(e.ip.s),
                              public_key     |-> pk.key,
                              pre_shared_key |-> IF e.psk.t # "absent"
                                                 THEN TStr(psk.key) ELSE None]),
                 fs)

\* the 'peer' section
PeerSection(peer, fs) ==
    IF peer.t = "absent" THEN [status |-> "ok", peers |-> <<>>, warned |-> TRUE]
    ELSE IF peer.t # "table" THEN Exit(Diag("Invalid type of peer list"))
    ELSE LET r == LoadPeers(peer.items, 1, <<>>, fs) IN
         IF r.status # "ok" THEN r
         ELSE [status |-> "ok", peers |-> r.peers, warned |-> FALSE]

\* the presence checks of 'server' and its required keys
ServerKeys(d) ==
    IF d.server.t = "absent" THEN Exit(Diag("Missing required key 'server'"))
    ELSE IF d.server.t # "table" THEN Raise("TypeError")
    ELSE IF d.server.subnet.t = "absent"
    THEN Exit(Diag("Missing required key 'subnet' in 'server'"))
    ELSE IF d.server.port.t = "absent"
    THEN Exit(Diag("Missing required key 'port' in 'server'"))
    ELSE IF d.server.privkey.t = "absent"
    THEN Exit(Diag("Missing required key 'private-key' in 'server'"))
    ELSE [status |-> "ok"]

\* Config.load(file) of a file that tomllib parses to d, with key files fs
Load(d, file, fs) ==
    LET k == ServerKeys(d) IN
    IF k.status # "ok" THEN k
    ELSE
    LET srv == d.server
        p   == PortCheck(srv.port)
    IN
    IF p.status # "ok" THEN p
    ELSE
    LET m == MtuCheck(srv.mtu) IN
    IF m.status # "ok" THEN m
    ELSE
    LET s == SubnetCheck(srv.subnet) IN
    IF s.status # "ok" THEN s
    ELSE
    LET ps == PeerSection(d.peer, fs) IN
    IF ps.status # "ok" THEN ps
    ELSE
    LET pk == read_key(srv.privkey, fs) IN
    IF pk.status # "ok" THEN pk
    ELSE [status |-> "ok",
          warned |-> ps.warned,
          config |-> [name          |-> SplitExt(file)[1],
                      subnet        |-> srv.subnet.s,
                      port          |-> srv.port,
                      private_key   |-> pk.key,
                      mtu           |-> srv.mtu,
                      post_up_cmd   |-> srv.postup,
                      post_down_cmd |-> srv.postdown,
                      interface     |-> srv.iface,
                      peers         |-> ps.peers]]

----------------------------------------------------------------------------
(* Inputs of Config.load *)

Q10 == <<"1", "0", ".", "0", ".", "0", ".">>

SubnetGood     == Q10 \o <<"1", "/", "2", "4">>
SubnetNoPrefix == Q10 \o <<"0">>
SubnetShort    == <<"1", "0", ".", "0", ".", "0", "/", "2", "4">>
IpBare         == Q10 \o <<"2">>
IpHost         == Q10 \o <<"3", "/", "3", "2">>
IpNet          == Q10 \o <<"8", "/", "2", "9">>
IpBad          == Q10 \o <<"4", "/">>

KeyPlain  == <<"P", "K">>
KeyInFile == <<"f", "i", "l", "e", ":", "k">>
KeyA      == <<"K", "A">>
KeyB      == <<"K", "B">>
KeyC      == <<"K", "C">>

\* the key files of the configuration directory: none, or a file k
KeyFiles == { <<>>, [p \in {<<"k">>} |-> <<"A", "B", "C", "\n">>] }

FileWg0 == <<"w", "g", "0", ".", "t", "o", "m", "l">>

SubnetVals  == {Absent, TStr(SubnetGood), TStr(SubnetNoPrefix), TStr(SubnetShort), TInt(10)}
PortVals    == {Absent, TInt(0), TInt(1), TInt(65535), TInt(65536), TBool(TRUE),
                TStr(<<"5", "1">>)}
MtuVals     == {Absent, TInt(1400), TBool(TRUE), TStr(<<"b", "i", "g">>)}
PrivKeyVals == {Absent, TStr(KeyPlain), TStr(KeyInFile)}

ServerTable(subnet, port, privkey, mtu, postup, postdown, iface) ==
    [t |-> "table", subnet |-> subnet, port |-> port, privkey |-> privkey,
     mtu |-> mtu, postup |-> postup, postdown |-> postdown, iface |-> iface]

LoadServers ==
    {Absent, TInt(1)} \cup
    { ServerTable(sn, po, pk, mt, Absent, Absent, Absent) :
        sn \in SubnetVals, po \in PortVals, pk \in PrivKeyVals, mt \in MtuVals }

PeerTable(pk, ip, psk) == [t |-> "table", pk |-> pk, ip |-> ip, psk |-> psk]

PeerTemplates ==
    { PeerTable(TStr(KeyA), TStr(IpBare), TStr(KeyInFile)),
      PeerTable(TStr(KeyB), TStr(IpHost), Absent),
      PeerTable(Absent, TStr(IpBare), Absent),
      PeerTable(TStr(KeyA), Absent, Absent),
      PeerTable(TStr(KeyA), TStr(IpBad), Absent),
      PeerTable(Absent, TStr(IpBad), Absent) }

\* TOML keys are unique: the peer at position i is named peer<i>
PeerName(i) == "peer" \o ToString(i)

Named(e, i) == [name |-> PeerName(i)] @@ e

PeerItems(templates) ==
    UNION { { [i \in 1..n |-> Named(f[i], i)] : f \in [1..n -> templates] } : n \in 0..MaxPeers }

LoadPeerSections ==
    {Absent, [t |-> "array"]} \cup { [t |-> "table", items |-> it] : it \in PeerItems(PeerTemplates) }

\* the peer sections of at most one peer
ShortPeerSections == { pr \in LoadPeerSections : pr.t = "table" => Len(pr.items) <= 1 }

\* the server sections put before every peer section: they pass rules 1 to 5
\* (an integer port, a boolean port, a private key kept in a file), or fail
\* the subnet rule
PeerServers ==
    { ServerTable(sn, po, pk, Absent, Absent, Absent, Absent) :
        sn \in {TStr(SubnetGood), TStr(SubnetShort)},
        po \in {TInt(1), TBool(TRUE)},
        pk \in {TStr(KeyPlain), TStr(KeyInFile)} }

\* every server section with the short peer sections, and the server
\* sections above with every peer section
LoadDocs ==
    { [server |-> sv, peer |-> pr] : sv \in LoadServers, pr \in ShortPeerSections }
    \cup { [server |-> sv, peer |-> pr] : sv \in PeerServers, pr \in LoadPeerSections }

NotRun == [status |-> "none"]

----------------------------------------------------------------------------
(* Each specification runs one operation; the variables of the others rest *)

LoadIdle   == doc = Absent /\ keyfs = <<>> /\ lfile = <<>> /\ lres = NotRun
RenderIdle == rcfg = None /\ conf = <<>>
TimeIdle   == now = 0 /\ hs = <<>> /\ shown = NotRun
StatusIdle ==
    /\ files = <<>> /\ filter = None /\ idx = 1 /\ spc = "idle" /\ cfg = None
    /\ keys = FALSE
    /\ lines = <<>> /\ li = 1 /\ out = <<>> /\ loaded = <<>> /\ errs = <<>>
    /\ exitcode = None
\* an exit status is None while the process runs, then TInt(status)
UpIdle     == upc = "idle" /\ ifup = FALSE /\ events = <<>> /\ upexit = None

----------------------------------------------------------------------------
(* Config.load as an operation *)

InitLoad ==
    /\ doc \in LoadDocs
    /\ keyfs \in KeyFiles
    /\ lfile = FileWg0
    /\ lres = NotRun
    /\ RenderIdle /\ TimeIdle /\ StatusIdle /\ UpIdle /\ root = FALSE

ConfigLoad ==
    /\ lres = NotRun
    /\ lres' = Load(doc, lfile, keyfs)
    /\ UNCHANGED <<doc, keyfs, lfile, renderVars, timeVars, statusVars, upVars, root>>

NextLoad == ConfigLoad

SpecLoad == InitLoad /\ [][NextLoad]_vars

----------------------------------------------------------------------------
(* The documented formats, stated without the loader's regular expressions *)

IsDigits(s) == s # <<>> /\ \A i \in 1..Len(s) : s[i] \in Digits

IsOctet(s) == IsDigits(s) /\ Len(s) <= 3

IsDottedQuad(s) ==
    \E a, b, c \in 1..Len(s) :
        /\ a < b /\ b < c
        /\ s[a] = "." /\ s[b] = "." /\ s[c] = "."
        /\ IsOctet(SubSeq(s, 1, a - 1))
        /\ IsOctet(SubSeq(s, a + 1, b - 1))
        /\ IsOctet(SubSeq(s, b + 1, c - 1))
        /\ IsOctet(SubSeq(s, c + 1, Len(s)))

IsCidr(s) ==
    \E k \in 1..Len(s) :
        /\ s[k] = "/"
        /\ IsDottedQuad(SubSeq(s, 1, k - 1))
        /\ IsDigits(SubSeq(s, k + 1, Len(s)))

IsAddrOrCidr(s) == IsDottedQuad(s) \/ IsCidr(s)

PeerEntries(d) == IF d.peer.t = "table" THEN d.peer.items ELSE <<>>

\* the validation rules of the loader's contract, on the parsed input
Rule1(d) == d.server.t = "table"
Rule2(d) == Rule1(d) /\ d.server.subnet.t # "absent" /\ d.server.port.t # "absent"
                     /\ d.server.privkey.t # "absent"
Rule3(d) == Rule2(d) /\ d.server.port.t = "int"
                     /\ d.server.port.v >= 1 /\ d.server.port.v <= 65535
Rule4(d) == Rule1(d) /\ d.server.mtu.t \in {"absent", "int"}
Rule5(d) == Rule2(d) /\ d.server.subnet.t = "str" /\ IsCidr(d.server.subnet.s)
Rule6(d) == /\ d.peer.t \in {"absent", "table"}
            /\ \A i \in 1..Len(PeerEntries(d)) :
                  LET e == PeerEntries(d)[i] IN
                  e.t = "table" /\ e.pk.t # "absent" /\ e.ip.t # "absent"
Rule7(d) == \A i \in 1..Len(PeerEntries(d)) :
                  LET e == PeerEntries(d)[i] IN
                  (e.t = "table" /\ e.ip.t # "absent") =>
                      (e.ip.t = "str" /\ IsAddrOrCidr(e.ip.s))

InputValid(d) ==
    Rule1(d) /\ Rule2(d) /\ Rule3(d) /\ Rule4(d) /\ Rule5(d) /\ Rule6(d) /\ Rule7(d)

\* C1: Config.load returns a Config only if the input satisfies every
\* validation rule (server section with subnet, port and private-key; port
\* an integer within 1..65535; mtu, when present, an integer; subnet a
\* dotted quad with a mandatory /prefix; every peer with public-key and ip;
\* every peer ip a dotted quad with an optional /prefix); an input that
\* violates a rule ends the process with a non-zero status and no Config.
C1_LoadOnlyValid ==
    lres # NotRun =>
        /\ lres.status = "ok" => InputValid(doc)
        /\ ~InputValid(doc) => lres.status \in {"exit", "raise"} /\ lres.code # 0

\* C1, the part the loader keeps: with 'integer' read as Python's
\* isinstance(x, int), which admits the booleans, every other rule is enforced
C1_ValidButForBooleans ==
    lres # NotRun /\ lres.status = "ok" =>
        /\ Rule2(doc) /\ Rule5(doc) /\ Rule6(doc) /\ Rule7(doc)
        /\ IsInstanceInt(doc.server.port)
        /\ doc.server.port.v >= 1 /\ doc.server.port.v <= 65535
        /\ doc.server.mtu.t \in {"absent", "int", "bool"}

\* C1: a boolean port is loaded
C1_BooleanPortLoaded ==
    lres # NotRun /\ lres.status = "ok" /\ lres.config.port = TBool(TRUE)

----------------------------------------------------------------------------
(* The order of the loader's diagnostics *)

MsgNoServer  == "Missing required key 'server'"
MsgNoSubnet  == "Missing required key 'subnet' in 'server'"
MsgNoPort    == "Missing required key 'port' in 'server'"
MsgNoPrivKey == "Missing required key 'private-key' in 'server'"
MsgPortType  == "'port' key must be an integer"
MsgPortRange == "'port' must be between 1 and 65535"
MsgMtuType   == "'mtu' key must be an integer"
MsgSubnet    == "Invalid 'subnet' specification; expected subnet in CIDR notation"
MsgPeerList  == "Invalid type of peer list"
MsgPeerNoKey == "Missing required key 'public-key' for peer '{name}'"
MsgPeerNoIp  == "Missing required key 'ip' for peer '{name}'"
MsgPeerIp    == "Invalid IP address for peer '{name}'"

\* the documented rule a diagnostic belongs to (0: not a validation rule)
RuleNo(dg) ==
    CASE dg.msg = MsgNoServer -> 1
      [] dg.msg \in {MsgNoSubnet, MsgNoPort, MsgNoPrivKey} -> 2
      [] dg.msg \in {MsgPortType, MsgPortRange} -> 3
      [] dg.msg = MsgMtuType -> 4
      [] dg.msg = MsgSubnet -> 5
      [] dg.msg \in {MsgPeerList, MsgPeerNoKey, MsgPeerNoIp} -> 6
      [] dg.msg = MsgPeerIp -> 7
      [] OTHER -> 0

\* a test of one rule and the diagnostic of its failure
Test(fails, dg) == [fails |-> fails, diag |-> dg]

Failing(tests) == SelectSeq(tests, LAMBDA x : x.fails)

\* the tests of rules 1 to 5 and of the shape of the peer section, in the
\* documented order; what counts as an integer is the loader's test of it
ServerTests(d) ==
    IF d.server.t = "absent" THEN <<Test(TRUE, Diag(MsgNoServer))>>
    ELSE IF d.server.t # "table" THEN <<>>
    ELSE LET sv == d.server IN
      << Test(sv.subnet.t = "absent", Diag(MsgNoSubnet)),
         Test(sv.port.t = "absent", Diag(MsgNoPort)),
         Test(sv.privkey.t = "absent", Diag(MsgNoPrivKey)),
         Test(sv.port.t \notin {"absent", "int", "bool"}, Diag(MsgPortType)),
         Test(sv.port.t \in {"int", "bool"} /\ (sv.port.v < 1 \/ sv.port.v > 65535),
              Diag(MsgPortRange)),
         Test(sv.mtu.t \notin {"absent", "int", "bool"}, Diag(MsgMtuType)),
         Test(sv.subnet.t = "str" /\ ~IsCidr(sv.subnet.s), Diag(MsgSubnet)),
         Test(d.peer.t \notin {"absent", "table"}, Diag(MsgPeerList)) >>

PeerLacksKey(e) == e.t = "table" /\ (e.pk.t = "absent" \/ e.ip.t = "absent")
PeerBadIp(e)    == e.t = "table" /\ e.ip.t = "str" /\ ~IsAddrOrCidr(e.ip.s)

\* the tests of rules 6 and 7 peer by peer: for each peer in file order its
\* public-key, its ip, then the format of its ip
PeerTests(d) ==
    LET items == PeerEntries(d) IN
    [ j \in 1..(3 * Len(items)) |->
        LET e == items[((j - 1) \div 3) + 1]
            k == (j - 1) % 3
        IN
        CASE k = 0 -> Test(e.t = "table" /\ e.pk.t = "absent", DiagPeer(MsgPeerNoKey, e.name))
          [] k = 1 -> Test(e.t = "table" /\ e.ip.t = "absent", DiagPeer(MsgPeerNoIp, e.name))
          [] k = 2 -> Test(PeerBadIp(e), DiagPeer(MsgPeerIp, e.name)) ]

\* the lowest-numbered rule among the failing tests, rules 6 and 7 taken
\* over all peers
LowestRule(d) ==
    LET f == Failing(ServerTests(d) \o PeerTests(d))
        R == { RuleNo(f[i].diag) : i \in 1..Len(f) }
    IN
    IF R = {} THEN 0 ELSE CHOOSE r \in R : \A q \in R : r <= q

\* C6 as stated: the diagnostic reported is that of the lowest-numbered
\* violated rule, rules 6 and 7 taken over all peers, so also when the
\* violations are on different peers.
C6_LowestRuleFirst ==
    (lres # NotRun /\ lres.status = "exit" /\ RuleNo(lres.diag) # 0) =>
        RuleNo(lres.diag) = LowestRule(doc)

\* C6 as the loader orders its checks: rules 1 to 5 in order, then for each
\* peer in file order rule 6 followed by rule 7; the diagnostic reported is
\* that of the first failing test in this order.
C6_FirstFailingTest ==
    (lres # NotRun /\ lres.status = "exit" /\ RuleNo(lres.diag) # 0) =>
        LET f == Failing(ServerTests(doc) \o PeerTests(doc)) IN
        f # <<>> /\ lres.diag = f[1].diag

\* C6: the first peer has a malformed ip (rule 7), the second lacks a
\* required key (rule 6), and the loader has reported the first
C6_TwoPeersReached ==
    /\ lres # NotRun /\ lres.status = "exit"
    /\ Len(PeerEntries(doc)) = 2
    /\ PeerBadIp(PeerEntries(doc)[1]) /\ PeerLacksKey(PeerEntries(doc)[2])
    /\ lres.diag = DiagPeer(MsgPeerIp, PeerName(1))

\* C7: every loaded peer's ip is in CIDR form: the configured ip followed by
\* "/32" when it has no prefix, the configured ip unchanged when it has one;
\* the peers keep the order of the source file.
C7_PeerIpCidr ==
    (lres # NotRun /\ lres.status = "ok") =>
        LET items == PeerEntries(doc)
            peers == lres.config.peers
        IN
        /\ Len(peers) = Len(items)
        /\ \A i \in 1..Len(items) :
              /\ peers[i].name = items[i].name
              /\ IsCidr(peers[i].ip)
              /\ IsDottedQuad(items[i].ip.s) => peers[i].ip = items[i].ip.s \o <<"/", "3", "2">>
              /\ IsCidr(items[i].ip.s) => peers[i].ip = items[i].ip.s

\* C7: a Config with a bare peer address and one with a prefix was loaded
C7_BothFormsLoaded ==
    /\ lres # NotRun /\ lres.status = "ok"
    /\ Len(lres.config.peers) = 2
    /\ doc.peer.items[1].ip.s = IpBare /\ lres.config.peers[1].ip = IpBare \o <<"/", "3", "2">>
    /\ doc.peer.items[2].ip.s = IpHost /\ lres.config.peers[2].ip = IpHost

----------------------------------------------------------------------------
(* Config.make_wg_conf: the lines that "\n".join puts together.  A line is *)
(* its f-string: the key, the text after "key = " and the values put in it *)

Header(h)            == [key |-> h]
Blank                == [key |-> ""]
Line(key, fmt, args) == [key |-> key, fmt |-> fmt, args |-> args]

FmtSynthUp ==
    "iptables -I FORWARD 1 -i {self.name} -j ACCEPT; iptables -t nat -I POSTROUTING 1 -o {self.interface} -j MASQUERADE"
FmtSynthDown ==
    "iptables -D FORWARD -i {self.name} -j ACCEPT; iptables -t nat -D POSTROUTING -o {self.interface} -j MASQUERADE"

\* a renderer that takes either explicit command alone
PostLinesEither(c) ==
    IF c.post_up_cmd # None \/ c.post_down_cmd # None
    THEN << Line("PostUp", "{self.post_up_cmd}", <<c.post_up_cmd>>),
            Line("PostDown", "{self.post_down_cmd}", <<c.post_down_cmd>>) >>
    ELSE IF c.interface # None
    THEN << Line("PostUp", FmtSynthUp, <<c.name, c.interface>>),
            Line("PostDown", FmtSynthDown, <<c.name, c.interface>>) >>
    ELSE <<>>

\* the PostUp/PostDown lines
PostLines(c) ==
    IF c.post_up_cmd # None /\ c.post_down_cmd # None
    THEN << Line("PostUp", "{self.post_up_cmd}", <<c.post_up_cmd>>),
            Line("PostDown", "{self.post_down_cmd}", <<c.post_down_cmd>>) >>
    ELSE IF c.interface # None
    THEN << Line("PostUp", FmtSynthUp, <<c.name, c.interface>>),
            Line("PostDown", FmtSynthDown, <<c.name, c.interface>>) >>
    ELSE <<>>

\* the block of one peer
PeerLines(peer) ==
    << Header("[Peer]"),
       Line("AllowedIPs", "{peer.ip}", <<peer.ip>>),
       Line("PublicKey", "{peer.public_key}", <<peer.public_key>>) >>
    \o (IF peer.pre_shared_key # None
        THEN <<Line("PresharedKey", "{peer.pre_shared_key}", <<peer.pre_shared_key>>)>>
        ELSE <<>>)
    \o <<Blank>>

RECURSIVE AllPeerLines(_)
AllPeerLines(peers) ==
    IF peers = <<>> THEN <<>> ELSE PeerLines(Head(peers)) \o AllPeerLines(Tail(peers))

make_wg_conf(c) ==
    << Header("[Interface]"),
       Line("Address", "{self.subnet}", <<c.subnet>>),
       Line("SaveConfig", "false", <<>>),
       Line("ListenPort", "{self.port}", <<c.port>>),
       Line("PrivateKey", "{self.private_key}", <<c.private_key>>) >>
    \o (IF c.mtu # None THEN <<Line("MTU", "{self.mtu}", <<c.mtu>>)>> ELSE <<>>)
    \o PostLines(c)
    \o <<Blank>>
    \o AllPeerLines(c.peers)

----------------------------------------------------------------------------
(* Config.make_wg_conf as an operation, on the Configs that load returns *)

RenderServers ==
    { ServerTable(TStr(SubnetGood), TInt(51820), TStr(KeyPlain), mt, up, dn, ifc) :
        mt \in {Absent, TInt(1400)},
        up \in {Absent, TStr("echo up"), TStr("")},
        dn \in {Absent, TStr("echo down")},
        ifc \in {Absent, TStr("eth0")} }

ValidPeerTemplates ==
    { PeerTable(TStr(KeyA), TStr(IpBare), TStr(KeyInFile)),
      PeerTable(TStr(KeyB), TStr(IpHost), Absent) }

RenderDocs ==
    { [server |-> sv, peer |-> [t |-> "table", items |-> it]] :
        sv \in RenderServers, it \in PeerItems(ValidPeerTemplates) }

KeyFilesK == [p \in {<<"k">>} |-> <<"A", "B", "C", "\n">>]

InitRender ==
    /\ \E d \in RenderDocs : rcfg = Load(d, FileWg0, KeyFilesK).config
    /\ conf = <<>>
    /\ LoadIdle /\ TimeIdle /\ StatusIdle /\ UpIdle /\ root = FALSE

MakeWgConf ==
    /\ conf = <<>>
    /\ conf' = make_wg_conf(rcfg)
    /\ UNCHANGED <<rcfg, loadVars, timeVars, statusVars, upVars, root>>

NextRender == MakeWgConf

SpecRender == InitRender /\ [][NextRender]_vars

WithKey(ls, key) == SelectSeq(ls, LAMBDA l : l.key = key)

\* C2: PostUp/PostDown are emitted by a three-way, mutually exclusive
\* policy: both explicit commands set: exactly those two, verbatim, and no
\* synthesized rule, whether or not interface is set; otherwise, interface
\* set: exactly the synthesized pair (an explicit command given alone is not
\* emitted); otherwise neither line.  There is a PostUp line if and only if
\* there is a PostDown line.
C2_PostPolicy ==
    conf # <<>> =>
        LET ups   == WithKey(conf, "PostUp")
            downs == WithKey(conf, "PostDown")
        IN
        /\ (rcfg.post_up_cmd # None /\ rcfg.post_down_cmd # None) =>
              /\ ups = <<[key |-> "PostUp", fmt |-> "{self.post_up_cmd}",
                          args |-> <<rcfg.post_up_cmd>>]>>
              /\ downs = <<[key |-> "PostDown", fmt |-> "{self.post_down_cmd}",
                            args |-> <<rcfg.post_down_cmd>>]>>
        /\ (~(rcfg.post_up_cmd # None /\ rcfg.post_down_cmd # None)
                /\ rcfg.interface # None) =>
              /\ ups = <<[key |-> "PostUp", fmt |-> FmtSynthUp,
                          args |-> <<rcfg.name, rcfg.interface>>]>>
              /\ downs = <<[key |-> "PostDown", fmt |-> FmtSynthDown,
                            args |-> <<rcfg.name, rcfg.interface>>]>>
        /\ (~(rcfg.post_up_cmd # None /\ rcfg.post_down_cmd # None)
                /\ rcfg.interface = None) =>
              ups = <<>> /\ downs = <<>>
        /\ (ups # <<>>) <=> (downs # <<>>)

\* C2: a Config with post_up_cmd alone and an interface was rendered
C2_LoneCommandRendered ==
    /\ conf # <<>>
    /\ rcfg.post_up_cmd # None /\ rcfg.post_down_cmd = None /\ rcfg.interface # None
    /\ WithKey(conf, "PostUp")[1].fmt = FmtSynthUp

----------------------------------------------------------------------------
(* time_to_relative_string, and the last-handshake lines of show_status *)

\* a formatter that always prints the hours after the days
time_to_relative_string_hours(nowv, t) ==
    LET diff == nowv - t IN
    IF ~(diff >= 0) THEN Raise("AssertionError")
    ELSE
      LET days == diff \div 86400
          r    == diff % 86400
          hrs  == r \div 3600
          r2   == r % 3600
          mins == r2 \div 60
          secs == r2 % 60
      IN
      [status |-> "ok",
       s |-> IF days > 0 THEN ToString(days) \o "d " \o ToString(hrs) \o "h"
             ELSE IF hrs > 0 THEN ToString(hrs) \o "h " \o ToString(mins) \o "m"
             ELSE IF mins > 0 THEN ToString(mins) \o "m " \o ToString(secs) \o "s"
             ELSE ToString(secs) \o "s"]

\* time_to_relative_string(t) at time.time() = nowv
time_to_relative_string(nowv, t) ==
    LET diff == nowv - t IN
    IF ~(diff >= 0) THEN Raise("AssertionError")
    ELSE
      LET days == diff \div 86400
          r    == diff % 86400
          hrs  == r \div 3600
          r2   == r % 3600
          mins == r2 \div 60
          secs == r2 % 60
      IN
      [status |-> "ok",
       s |-> IF days > 0
             THEN (IF hrs > 0 THEN ToString(days) \o "d " \o ToString(hrs) \o "h"
                   ELSE ToString(days) \o "d")
             ELSE IF hrs > 0 THEN ToString(hrs) \o "h " \o ToString(mins) \o "m"
             ELSE IF mins > 0 THEN ToString(mins) \o "m " \o ToString(secs) \o "s"
             ELSE ToString(secs) \o "s"]

\* handshake_str and ago from the dump field last_handshake; called tells
\* whether time_to_relative_string was entered, grey is the msg.GREY prefix
HandshakeDisplay(nowv, last_handshake) ==
    IF ~IsIntLit(last_handshake) THEN Raise("ValueError")
    ELSE IF ParseInt(last_handshake) # 0
    THEN LET r == time_to_relative_string(nowv, ParseInt(last_handshake)) IN
         IF r.status # "ok" THEN r
         ELSE [status |-> "ok", text |-> r.s, grey |-> FALSE, ago |-> "ago", called |-> TRUE]
    ELSE [status |-> "ok", text |-> "never", grey |-> TRUE, ago |-> "", called |-> FALSE]

----------------------------------------------------------------------------
(* The handshake display as an operation *)

DigitChar(n) ==
    CASE n = 0 -> "0" [] n = 1 -> "1" [] n = 2 -> "2" [] n = 3 -> "3" [] n = 4 -> "4"
      [] n = 5 -> "5" [] n = 6 -> "6" [] n = 7 -> "7" [] n = 8 -> "8" [] n = 9 -> "9"

\* the decimal digits of n >= 0, as the dump prints an epoch
RECURSIVE Decimal(_)
Decimal(n) ==
    IF n < 10 THEN <<DigitChar(n)>> ELSE Decimal(n \div 10) \o <<DigitChar(n % 10)>>

Clocks == {1700000000}

Elapsed ==
    { d * 86400 + h * 3600 + m * 60 + sec :
        d \in 0..MaxDays, h \in {0, 1, 2, 23}, m \in {0, 1, 30, 59}, sec \in {0, 1, 30, 40, 59} }

HandshakeFields(nowv) ==
    { Decimal(nowv - e) : e \in Elapsed }
        \cup { <<"0">>, <<"0", "0">>, <<"n", "a">>, Decimal(nowv + 5) }

InitTime ==
    /\ now \in Clocks
    /\ hs \in HandshakeFields(now)
    /\ shown = NotRun
    /\ LoadIdle /\ RenderIdle /\ StatusIdle /\ UpIdle /\ root = FALSE

ShowHandshake ==
    /\ shown = NotRun
    /\ shown' = HandshakeDisplay(now, hs)
    /\ UNCHANGED <<now, hs, loadVars, renderVars, statusVars, upVars, root>>

NextTime == ShowHandshake

SpecTime == InitTime /\ [][NextTime]_vars

\* the string the documentation gives for an elapsed time
RelativeDoc(diff) ==
    LET d   == diff \div 86400
        h   == (diff % 86400) \div 3600
        m   == (diff % 3600) \div 60
        sec == diff % 60
    IN
    CASE d > 0 /\ h > 0 -> ToString(d) \o "d " \o ToString(h) \o "h"
      [] d > 0 /\ h = 0 -> ToString(d) \o "d"
      [] d = 0 /\ h > 0 -> ToString(h) \o "h " \o ToString(m) \o "m"
      [] d = 0 /\ h = 0 /\ m > 0 -> ToString(m) \o "m " \o ToString(sec) \o "s"
      [] OTHER -> ToString(sec) \o "s"

\* C8: for every elapsed time diff >= 0, with d = diff div 86400,
\* h = (diff mod 86400) div 3600, m = (diff mod 3600) div 60, s = diff mod 60,
\* the string is "{d}d {h}h", "{d}d", "{h}h {m}m", "{m}m {s}s" or "{s}s" by
\* the dominant unit (0 gives "0s", 90 "1m 30s", 7300 "2h 1m", 90000
\* "1d 1h"); a last-handshake of exactly 0 never reaches the function and is
\* shown as "never" with no "ago".
C8_RelativeTime ==
    (shown # NotRun /\ IsIntLit(hs)) =>
        LET t    == ParseInt(hs)
            diff == now - t
        IN
        /\ t = 0 => shown.status = "ok" /\ shown.text = "never" /\ shown.ago = ""
                    /\ ~shown.called
        /\ (t # 0 /\ diff >= 0) =>
              /\ shown.status = "ok" /\ shown.called /\ shown.ago = "ago"
              /\ shown.text = RelativeDoc(diff)
              /\ diff = 0 => shown.text = "0s"
              /\ diff = 90 => shown.text = "1m 30s"
              /\ diff = 7300 => shown.text = "2h 1m"
              /\ diff = 90000 => shown.text = "1d 1h"

\* C8: a handshake of exactly one day ago has been displayed
C8_WholeDayShown ==
    /\ shown # NotRun /\ shown.status = "ok"
    /\ now - ParseInt(hs) = 86400 /\ shown.text = "1d" /\ shown.ago = "ago"

----------------------------------------------------------------------------
(* bytes_to_str *)

\* f"{x / unit:.1f}": x / unit is exact in binary floating point (unit is a
\* power of two), and the format rounds it to the nearest tenth, ties to even
OneDecimal(x, unit) ==
    LET q      == (10 * x) \div unit
        rem    == (10 * x) % unit
        tenths == IF 2 * rem > unit THEN q + 1
                  ELSE IF 2 * rem = unit THEN q + (q % 2)
                  ELSE q
    IN ToString(tenths \div 10) \o "." \o ToString(tenths % 10)

bytes_to_str(x) ==
    IF x < 1024 THEN ToString(x) \o "b"
    ELSE IF x < 1024 * 1024 THEN OneDecimal(x, 1024) \o "k"
    ELSE IF x < 1024 * 1024 * 1024 THEN OneDecimal(x, 1024 * 1024) \o "M"
    ELSE OneDecimal(x, 1024 * 1024 * 1024) \o "G"

----------------------------------------------------------------------------
(* Config.lookup_peer_by_pub_key *)

\* a lookup in which the last match wins
RECURSIVE lookup_last(_, _)
lookup_last(peers, key) ==
    IF peers = <<>> THEN None
    ELSE IF peers[Len(peers)].public_key = key THEN peers[Len(peers)]
    ELSE lookup_last(DropLast(peers, 1), key)

\* self.lookup_peer_by_pub_key(key), peers being self.peers
RECURSIVE lookup_peer_by_pub_key(_, _)
lookup_peer_by_pub_key(peers, key) ==
    IF peers = <<>> THEN None
    ELSE IF Head(peers).public_key = key THEN Head(peers)
    ELSE lookup_peer_by_pub_key(Tail(peers), key)

----------------------------------------------------------------------------
(* show_status: the body of the loop over one dump line.  line is          *)
(* line.split(); entries are the lines printed for it, each tagged with    *)
(* the index j of the dump line; err is the exception that ends the loop   *)

NoneText == <<"(", "n", "o", "n", "e", ")">>

IdentityLines(c, line, showkeys, j) ==
    LET pub_key == line[1]
        ip_str  == line[4]
        found   == lookup_peer_by_pub_key(c.peers, pub_key)
        unknown == found = None
        peer    == IF unknown
                   THEN [name |-> "unknown", ip |-> ip_str, public_key |-> pub_key,
                         pre_shared_key |-> None]
                   ELSE found
        shownip == IF EndsWith(ip_str, <<"/", "3", "2">>) THEN DropLast(ip_str, 3) ELSE ip_str
    IN
    <<[k |-> "peer", line |-> j, name |-> peer.name, ip |-> shownip, unknown |-> unknown]>>
    \o (IF showkeys THEN <<[k |-> "public-key", line |-> j, key |-> pub_key]>> ELSE <<>>)

\* a loop body that passes over a line of the wrong length in silence
LineOutcomeLenient(c, line, nowv, showkeys, j) ==
    IF Len(line) # 8 THEN [entries |-> <<>>, err |-> "none"]
    ELSE [entries |-> IdentityLines(c, line, showkeys, j), err |-> "none"]

LineOutcome(c, line, nowv, showkeys, j) ==
    IF Len(line) # 8 THEN [entries |-> <<>>, err |-> "ValueError"]
    ELSE
      LET endpoint_str == line[3]
          ident        == IdentityLines(c, line, showkeys, j)
      IN
      IF endpoint_str # NoneText /\ CountChar(endpoint_str, ":") # 1
      THEN [entries |-> ident, err |-> "ValueError"]
      ELSE
        LET eps == IF endpoint_str = NoneText THEN <<>>
                   ELSE LET colon == Find(endpoint_str, ":") IN
                        << SubSeq(endpoint_str, 1, colon - 1),
                           SubSeq(endpoint_str, colon + 1, Len(endpoint_str)) >>
            h   == HandshakeDisplay(nowv, line[5])
        IN
        IF h.status # "ok" THEN [entries |-> ident, err |-> h.exc]
        ELSE IF ~IsIntLit(line[7]) \/ ~IsIntLit(line[6])
        THEN [entries |-> ident, err |-> "ValueError"]
        ELSE [entries |-> ident \o
                << [k |-> "conn", line |-> j, eps |-> eps],
                   [k |-> "last", line |-> j, text |-> h.text, ago |-> h.ago],
                   [k |-> "traffic", line |-> j, sent |-> bytes_to_str(ParseInt(line[7])),
                    received |-> bytes_to_str(ParseInt(line[6]))],
                   [k |-> "blank", line |-> j] >>,
              err |-> "none"]

----------------------------------------------------------------------------
(* show_status *)

Toml    == <<".", "t", "o", "m", "l">>
NameWg0 == <<"w", "g", "0">>
NameWg1 == <<"w", "g", "1">>
NameWg2 == <<"w", "g", "2">>

FileNames ==
    { NameWg0 \o Toml, NameWg1 \o Toml, NameWg2 \o Toml, NameWg0 \o <<".", "c", "o", "n", "f">> }

\* os.listdir: each name once, in any order
Listings ==
    UNION { { f \in [1..n -> FileNames] : \A i, j \in 1..n : i # j => f[i] # f[j] } :
            n \in 0..MaxFiles }

\* what a configuration file of the directory may hold: three peers of
\* which the first two share a public key, or the same with a subnet that
\* lacks its prefix
DocThreePeers ==
    [server |-> ServerTable(TStr(SubnetGood), TInt(51820), TStr(KeyPlain),
                            Absent, Absent, Absent, Absent),
     peer   |-> [t |-> "table",
                 items |-> << Named(PeerTable(TStr(KeyA), TStr(IpBare), Absent), 1),
                              Named(PeerTable(TStr(KeyA), TStr(IpHost), Absent), 2),
                              Named(PeerTable(TStr(KeyB), TStr(IpNet), Absent), 3) >>]]

DocBadSubnet == [DocThreePeers EXCEPT !.server.subnet = TStr(SubnetNoPrefix)]

StatusDocs == {DocThreePeers, DocBadSubnet}

\* the lines of `wg show <interface> dump`, each split into its fields
DumpHeader == <<KeyPlain, KeyA, <<"5", "1", "8", "2", "0">>, <<"o", "f", "f">>>>

EndpointV4 == <<"1", ".", "2", ".", "3", ".", "4", ":", "7">>
EndpointV6 == <<"[", ":", ":", "1", "]", ":", "7">>

RecordKnown(nowv) ==
    << KeyA, NoneText, EndpointV4, IpBare \o <<"/", "3", "2">>, Decimal(nowv - 90),
       <<"2", "0", "4", "8">>, <<"5", "1", "2">>, <<"o", "f", "f">> >>

RecordUnknown ==
    << KeyC, NoneText, NoneText, IpNet, <<"0">>, <<"0">>, <<"0">>, <<"o", "f", "f">> >>

RecordShort(nowv) == SubSeq(RecordKnown(nowv), 1, 7)

RecordV6(nowv) == [RecordKnown(nowv) EXCEPT ![1] = KeyB, ![3] = EndpointV6]

DumpRecords(nowv) == {RecordKnown(nowv), RecordUnknown, RecordShort(nowv), RecordV6(nowv)}

DumpOutputs(nowv) ==
    UNION { { <<DumpHeader>> \o b : b \in [1..n -> DumpRecords(nowv)] } : n \in 0..MaxLines }

\* the two tests that `continue` past a directory entry
Passes(f, flt) ==
    /\ SplitExt(f)[2] = Toml
    /\ ~(flt # None /\ SplitExt(f)[1] # flt.s)

Err(exc, at) == [exc |-> exc, at |-> at]

StatusExit(e) ==
    /\ spc' = "exited"
    /\ exitcode' = TInt(1)
    /\ errs' = Append(errs, e)

InitStatus ==
    /\ files \in Listings
    /\ filter \in {None, TStr(NameWg0)}
    /\ keys \in BOOLEAN
    /\ now \in Clocks
    /\ idx = 1 /\ spc = "start" /\ cfg = None
    /\ lines = <<>> /\ li = 1 /\ out = <<>> /\ loaded = <<>> /\ errs = <<>>
    /\ exitcode = None
    /\ root = FALSE
    /\ hs = <<>> /\ shown = NotRun
    /\ LoadIdle /\ RenderIdle /\ UpIdle

\* os.listdir(cfg_path) and its handlers; elevate.elevate replaces the
\* process by one that runs the same command as root
ListDir ==
    /\ spc = "start"
    /\ \/ spc' = "next" /\ UNCHANGED <<errs, exitcode, root>>
       \/ StatusExit(Err("exit", "listdir")) /\ UNCHANGED root
       \/ IF ~root
          THEN root' = TRUE /\ UNCHANGED <<spc, errs, exitcode>>
          ELSE StatusExit(Err("exit", "listdir")) /\ UNCHANGED root
    /\ UNCHANGED <<files, filter, idx, cfg, keys, lines, li, out, loaded>>
    /\ UNCHANGED <<now, hs, shown, loadVars, renderVars, upVars>>

\* the loop has run through the listing: show_status returns
Finish ==
    /\ spc = "next" /\ idx > Len(files)
    /\ spc' = "done" /\ exitcode' = TInt(0)
    /\ UNCHANGED <<files, filter, idx, cfg, keys, lines, li, out, loaded, errs>>
    /\ UNCHANGED <<now, hs, shown, loadVars, renderVars, upVars, root>>

SkipFile ==
    /\ spc = "next" /\ idx <= Len(files)
    /\ ~Passes(files[idx], filter)
    /\ idx' = idx + 1
    /\ UNCHANGED <<files, filter, spc, cfg, keys, lines, li, out, loaded, errs, exitcode>>
    /\ UNCHANGED <<now, hs, shown, loadVars, renderVars, upVars, root>>

\* a loader whose failure is reported and passed over like a dump failure
LoadFailedContinue(r) ==
    /\ spc' = "next"
    /\ idx' = idx + 1
    /\ errs' = Append(errs, Err(r.status, "load"))
    /\ UNCHANGED <<exitcode, cfg, out, loaded>>

\* Config.load did not return: error_and_exit, or an exception that
\* show_status does not catch (the call is outside its try)
LoadFailed(r) ==
    /\ StatusExit(Err(r.status, "load"))
    /\ UNCHANGED <<idx, cfg, out, loaded>>

LoadFile ==
    /\ spc = "next" /\ idx <= Len(files)
    /\ Passes(files[idx], filter)
    /\ \E d \in StatusDocs :
         LET r == Load(d, files[idx], KeyFilesK) IN
         IF r.status = "ok"
         THEN /\ cfg' = r.config
              /\ out' = <<[k |-> "interface", name |-> SplitExt(files[idx])[1]]>>
              /\ loaded' = Append(loaded, [name |-> SplitExt(files[idx])[1], result |-> "running"])
              /\ spc' = "dump"
              /\ UNCHANGED <<idx, errs, exitcode>>
         ELSE LoadFailed(r)
    /\ UNCHANGED <<files, filter, keys, lines, li>>
    /\ UNCHANGED <<now, hs, shown, loadVars, renderVars, upVars, root>>

\* a reporter that gives up at the first dump failure
DumpFailedExit ==
    /\ StatusExit(Err("CalledProcessError", "dump"))
    /\ UNCHANGED <<lines, li>>

\* subprocess.check_output raised: except Exception reports it and continues
DumpFailed ==
    /\ errs' = Append(errs, Err("CalledProcessError", "dump"))
    /\ spc' = "enditer"
    /\ UNCHANGED <<lines, li, exitcode>>

Dump ==
    /\ spc = "dump"
    /\ \/ DumpFailed
       \/ \E o \in DumpOutputs(now) :
            /\ lines' = o /\ li' = 2 /\ spc' = "lines"
            /\ UNCHANGED <<errs, exitcode>>
    /\ UNCHANGED <<files, filter, idx, cfg, keys, out, loaded>>
    /\ UNCHANGED <<now, hs, shown, loadVars, renderVars, upVars, root>>

\* one pass of `for line in lines[1:]`; an exception leaves the loop for
\* the handler, which reports it and continues with the next file
ProcessLine ==
    /\ spc = "lines" /\ li <= Len(lines)
    /\ LET r == LineOutcome(cfg, lines[li], now, keys, li) IN
         /\ out' = out \o r.entries
         /\ IF r.err = "none"
            THEN li' = li + 1 /\ UNCHANGED <<spc, errs>>
            ELSE /\ errs' = Append(errs, Err(r.err, "line"))
                 /\ spc' = "enditer"
                 /\ UNCHANGED li
    /\ UNCHANGED <<files, filter, idx, cfg, keys, lines, loaded, exitcode>>
    /\ UNCHANGED <<now, hs, shown, loadVars, renderVars, upVars, root>>

LinesDone ==
    /\ spc = "lines" /\ li > Len(lines)
    /\ spc' = "enditer"
    /\ UNCHANGED <<files, filter, idx, cfg, keys, lines, li, out, loaded, errs, exitcode>>
    /\ UNCHANGED <<now, hs, shown, loadVars, renderVars, upVars, root>>

\* the loop goes on to the next directory entry; what was printed for this
\* interface is summed up in loaded
EndInterface ==
    /\ spc = "enditer"
    /\ loaded' = [loaded EXCEPT ![Len(loaded)].result =
                      IF errs = <<>> THEN "ok" ELSE errs[1].at]
    /\ idx' = idx + 1 /\ spc' = "next"
    /\ cfg' = None /\ lines' = <<>> /\ li' = 1 /\ out' = <<>> /\ errs' = <<>>
    /\ UNCHANGED <<files, filter, keys, exitcode>>
    /\ UNCHANGED <<now, hs, shown, loadVars, renderVars, upVars, root>>

NextStatus ==
    \/ ListDir \/ Finish \/ SkipFile \/ LoadFile \/ Dump
    \/ ProcessLine \/ LinesDone \/ EndInterface

SpecStatus == InitStatus /\ [][NextStatus]_vars

----------------------------------------------------------------------------
(* What the report owes to the listing and to the dump *)

\* the directory entry is a .toml file that the interface filter lets through
DocPasses(f, flt) ==
    /\ EndsWith(f, Toml) /\ Len(f) > Len(Toml)
    /\ flt = None \/ DropLast(f, Len(Toml)) = flt.s

\* the interfaces of the first k directory entries that pass, in order
PassingNames(k) ==
    LET sel == SelectSeq(SubSeq(files, 1, k), LAMBDA f : DocPasses(f, filter)) IN
    [i \in 1..Len(sel) |-> DropLast(sel[i], Len(Toml))]

LoadedNames == [i \in 1..Len(loaded) |-> loaded[i].name]

\* a dump record that show_status can print in full
WellFormed(line) ==
    /\ Len(line) = 8
    /\ line[3] = NoneText \/ Cardinality({i \in 1..Len(line[3]) : line[3][i] = ":"}) = 1
    /\ IsDigits(line[5]) /\ (DecVal(line[5]) = 0 \/ DecVal(line[5]) <= now)
    /\ IsDigits(line[6]) /\ IsDigits(line[7])

\* the identity lines printed for dump line j
IdentityOf(j) == SelectSeq(out, LAMBDA e : e.k = "peer" /\ e.line = j)

\* dump line j was reported in full: its identity line up to its blank line
Reported(j) ==
    /\ Len(IdentityOf(j)) = 1
    /\ \E i \in 1..Len(out) : out[i].k = "blank" /\ out[i].line = j

\* something was printed for dump line j
Mentioned(j) == \E i \in 1..Len(out) : out[i].k # "interface" /\ out[i].line = j

\* the dump command succeeded and the loop over its lines has ended
DumpRead == spc = "enditer" /\ (errs = <<>> \/ errs[1].at = "line")

\* the dump holds a line of the wrong length and is well-formed otherwise
OnlyShortLines ==
    /\ \E k \in 2..Len(lines) : Len(lines[k]) # 8
    /\ \A j \in 2..Len(lines) : Len(lines[j]) = 8 => WellFormed(lines[j])

FirstShort == CHOOSE k \in 2..Len(lines) :
                  Len(lines[k]) # 8 /\ \A j \in 2..(k - 1) : Len(lines[j]) = 8

\* C3: a failure of the status-dump command for one interface is reported
\* as an error for that interface only: the invocation is not terminated by
\* it, and every later configuration file that passes the filter is still
\* loaded and its interface reported.
C3_DumpFailureIsLocal ==
    /\ (spc = "enditer" /\ errs # <<>> /\ errs[1].at = "dump") =>
          /\ errs = <<Err("CalledProcessError", "dump")>>
          /\ exitcode = None
          /\ out = <<[k |-> "interface", name |-> cfg.name]>>
    /\ spc = "exited" => errs[Len(errs)].at \in {"listdir", "load"}
    /\ (\E i \in 1..Len(loaded) : loaded[i].result = "dump") =>
          /\ spc \in {"next", "exited"} => LoadedNames = PassingNames(idx - 1)
          /\ spc \in {"dump", "lines", "enditer"} => LoadedNames = PassingNames(idx)
          /\ spc = "done" => LoadedNames = PassingNames(Len(files)) /\ exitcode = TInt(0)

\* C3: the dump of the first of two interfaces failed, and the second was
\* reported
C3_SecondReported ==
    /\ spc = "done" /\ Len(loaded) = 2
    /\ loaded[1].result = "dump" /\ loaded[2].result = "ok"

\* C4 as stated: a dump line that does not split into eight fields is
\* reported and skipped, and every well-formed record of the same dump,
\* before and after it, is still reported.
C4_ShortLineSkipped ==
    (DumpRead /\ OnlyShortLines) =>
        /\ errs # <<>>
        /\ \A j \in 2..Len(lines) : WellFormed(lines[j]) => Reported(j)

\* C4 as the reporter does it: the first line that does not split into
\* eight fields raises an error that is reported once; the records before
\* it have been reported, nothing is printed for it or for the lines after
\* it, and the invocation goes on with the next configuration file.
C4_ShortLineEndsDump ==
    (DumpRead /\ OnlyShortLines) =>
        /\ errs = <<Err("ValueError", "line")>>
        /\ li = FirstShort
        /\ \A j \in 2..(FirstShort - 1) : Reported(j)
        /\ \A j \in FirstShort..Len(lines) : ~Mentioned(j)
        /\ exitcode = None

\* C4: a dump with a short line and a well-formed record after it has been
\* read to its end
C4_ShortLineFirst ==
    /\ DumpRead /\ Len(lines) = 3
    /\ Len(lines[2]) # 8 /\ WellFormed(lines[3])
    /\ errs = <<Err("ValueError", "line")>> /\ ~Mentioned(3)

\* the configured peers whose public key is that of a dump record
Matches(line) == {i \in 1..Len(cfg.peers) : cfg.peers[i].public_key = line[1]}

\* the loop body has run on dump line j (to its end or to an exception)
Processed(j) == j < li \/ (j = li /\ spc = "enditer" /\ errs # <<>>)

\* C5: for every dump record after the discarded first line the identity
\* shown is that of the first configured peer with the record's public key;
\* with no such peer the record is shown as "unknown" with its own reported
\* allowed-IP, and the records after it are still reported.
C5_PeerIdentity ==
    spc \in {"lines", "enditer"} =>
      \A j \in 2..Len(lines) :
        (Len(lines[j]) = 8 /\ Processed(j)) =>
          /\ Len(IdentityOf(j)) = 1
          /\ LET e == IdentityOf(j)[1]
                 m == Matches(lines[j])
             IN
             IF m = {}
             THEN /\ e.name = "unknown" /\ e.unknown
                  /\ \/ e.ip = lines[j][4] /\ ~EndsWith(lines[j][4], <<"/", "3", "2">>)
                     \/ e.ip \o <<"/", "3", "2">> = lines[j][4]
                  /\ WellFormed(lines[j]) => j < li
             ELSE /\ ~e.unknown
                  /\ e.name = cfg.peers[CHOOSE i \in m : \A q \in m : i <= q].name

\* C5: a record of an unknown peer was shown, and after it a record whose
\* key two configured peers share, under the name of the first of them
C5_UnknownThenShared ==
    /\ spc = "enditer" /\ errs = <<>> /\ Len(lines) = 3
    /\ Matches(lines[2]) = {} /\ Matches(lines[3]) = {1, 2}
    /\ IdentityOf(2)[1].name = "unknown" /\ IdentityOf(3)[1].name = PeerName(1)
    /\ Reported(3)

\* C9: a validation failure while loading a .toml file that passes the
\* filter ends the invocation with a non-zero status: the interfaces before
\* it have been reported, none after it is loaded or reported.  Files that
\* are not .toml or that the filter excludes are never loaded.
C9_LoadFailureEndsAll ==
    /\ (\E i \in 1..Len(errs) : errs[i].at = "load") =>
          /\ spc = "exited"
          /\ exitcode # None /\ exitcode.v # 0
          /\ DocPasses(files[idx], filter)
          /\ LoadedNames = PassingNames(idx - 1)
          /\ \A i \in 1..Len(loaded) : loaded[i].result # "running"
    /\ spc = "exited" => ~ENABLED NextStatus
    /\ \E k \in 0..Len(files) : LoadedNames = PassingNames(k)

\* C9: the second of three passing files failed to load: the first was
\* reported, the third never loaded
C9_MiddleFileFailed ==
    /\ spc = "exited" /\ errs[Len(errs)].at = "load"
    /\ Len(files) = 3 /\ idx = 2
    /\ \A i \in 1..3 : DocPasses(files[i], filter)
    /\ Len(loaded) = 1 /\ loaded[1].result = "ok"

----------------------------------------------------------------------------
(* interface_up, the `up` command.  events is the trace of what the        *)
(* command has done to its surroundings.                                   *)

UpDocs == RenderDocs \cup {DocBadSubnet}

UpExit(status, why) ==
    /\ upc' = "exited"
    /\ upexit' = TInt(status)
    /\ events' = IF why = "" THEN events ELSE Append(events, why)

InitUp ==
    /\ upc = "stat" /\ ifup = FALSE /\ events = <<>> /\ upexit = None
    /\ root = FALSE
    /\ rcfg = None /\ conf = <<>>
    /\ lfile = NameWg0 \o Toml
    /\ doc = Absent /\ keyfs = <<>> /\ lres = NotRun
    /\ TimeIdle /\ StatusIdle

\* os.stat(path) and its handlers; elevate.elevate replaces the process by
\* one that runs the same command as root, or raises when sudo cannot run
UpStat ==
    /\ upc = "stat"
    /\ \/ upc' = "load" /\ UNCHANGED <<events, upexit, root>>
       \/ UpExit(1, "stat_failed") /\ UNCHANGED root
       \/ IF ~root
          THEN \/ root' = TRUE /\ UNCHANGED <<upc, events, upexit>>
               \/ UpExit(1, "elevate_failed") /\ UNCHANGED root
          ELSE UpExit(1, "stat_failed") /\ UNCHANGED root
    /\ UNCHANGED <<ifup, rcfg, conf, loadVars, timeVars, statusVars>>

\* wg_conf = Config.load(path).make_wg_conf()
UpLoad ==
    /\ upc = "load"
    /\ \E d \in UpDocs :
         LET r == Load(d, lfile, KeyFilesK) IN
         IF r.status = "ok"
         THEN /\ rcfg' = r.config
              /\ conf' = make_wg_conf(r.config)
              /\ events' = Append(events, "loaded")
              /\ upc' = "write"
              /\ UNCHANGED upexit
         ELSE /\ UpExit(r.code, "load_failed")
              /\ UNCHANGED <<rcfg, conf>>
    /\ UNCHANGED <<ifup, root, loadVars, timeVars, statusVars>>

\* the try block that replaces the .conf file: PermissionError is handled
\* by error_and_exit, any other OSError is not caught
UpWrite ==
    /\ upc = "write"
    /\ \/ /\ \E old \in {<<>>, <<"remove_old">>} :
               events' = events \o old \o <<"write_new">>
          /\ upc' = "ifcheck"
          /\ UNCHANGED upexit
       \/ UpExit(1, "write_failed")
       \/ /\ upc' = "exited" /\ upexit' = TInt(1)
          /\ events' = events \o <<"remove_old", "write_failed">>
    /\ UNCHANGED <<ifup, root, rcfg, conf, loadVars, timeVars, statusVars>>

\* interface in psutil.net_if_addrs().keys()
UpCheckInterface ==
    /\ upc = "ifcheck"
    /\ \E exists \in BOOLEAN :
         /\ ifup' = exists
         /\ upc' = IF exists THEN "down" ELSE "up"
    /\ UNCHANGED <<events, upexit, root, rcfg, conf, loadVars, timeVars, statusVars>>

\* a command that goes on to wg-quick up after a failed wg-quick down
DownFailedIgnored ==
    /\ events' = events \o <<"wg-quick down", "down_failed">>
    /\ upc' = "up"
    /\ UNCHANGED upexit

\* wg-quick down raised: error_and_exit
DownFailed ==
    /\ upc' = "exited" /\ upexit' = TInt(1)
    /\ events' = events \o <<"wg-quick down", "down_failed">>

\* subprocess.check_call(["wg-quick", "down", interface])
UpDown ==
    /\ upc = "down"
    /\ \/ /\ events' = Append(events, "wg-quick down")
          /\ upc' = "up"
          /\ UNCHANGED upexit
       \/ DownFailed
    /\ UNCHANGED <<ifup, root, rcfg, conf, loadVars, timeVars, statusVars>>

\* subprocess.check_call(["wg-quick", "up", interface])
UpUp ==
    /\ upc = "up"
    /\ \/ /\ events' = Append(events, "wg-quick up")
          /\ upc' = "done"
          /\ upexit' = TInt(0)
       \/ /\ upc' = "exited" /\ upexit' = TInt(1)
          /\ events' = events \o <<"wg-quick up", "up_failed">>
    /\ UNCHANGED <<ifup, root, rcfg, conf, loadVars, timeVars, statusVars>>

NextUp == UpStat \/ UpLoad \/ UpWrite \/ UpCheckInterface \/ UpDown \/ UpUp

SpecUp == InitUp /\ [][NextUp]_vars

Positions(e) == {i \in 1..Len(events) : events[i] = e}

Before(a, b) == \A i \in Positions(a), j \in Positions(b) : i < j

\* C10: `wg-quick up` is invoked at most once and only after the
\* configuration was loaded and validated and the rendered .conf written;
\* when the interface already exists, `wg-quick down` is invoked exactly
\* once, before `wg-quick up` and after the new .conf has replaced the old
\* one; if loading, writing or that `wg-quick down` fails, `wg-quick up` is
\* never invoked and the process exits with a non-zero status.
C10_UpOrder ==
    /\ Cardinality(Positions("wg-quick up")) <= 1
    /\ Positions("wg-quick up") # {} =>
          /\ Positions("loaded") # {} /\ Before("loaded", "wg-quick up")
          /\ Positions("write_new") # {} /\ Before("write_new", "wg-quick up")
          /\ rcfg # None /\ conf = make_wg_conf(rcfg)
          /\ ifup => Cardinality(Positions("wg-quick down")) = 1
    /\ Cardinality(Positions("wg-quick down")) <= 1
    /\ Positions("wg-quick down") # {} =>
          /\ ifup
          /\ Positions("write_new") # {} /\ Before("write_new", "wg-quick down")
          /\ Before("remove_old", "write_new")
          /\ Before("wg-quick down", "wg-quick up")
    /\ (\E f \in {"load_failed", "write_failed", "down_failed"} : Positions(f) # {}) =>
          /\ Positions("wg-quick up") = {}
          /\ upc = "exited" /\ upexit # None /\ upexit.v # 0

\* C10: the old .conf was replaced, the existing interface brought down and
\* the interface brought up
C10_ReplacedAndRestarted ==
    /\ upc = "done" /\ upexit = TInt(0) /\ ifup
    /\ events = <<"loaded", "remove_old", "write_new", "wg-quick down", "wg-quick up">>

============================================================================
